---- MODULE Spec2Model ----
(***************************************************************************)
(* Model of src/src/main.rs: the segment lifecycle controller (the loop of *)
(* main), the audio callback write_input_data, and the upload dispatcher   *)
(* threads spawned once per finalized segment.                             *)
(*                                                                         *)
(* Threads: the controller (main), one audio callback thread (driven by    *)
(* the stream while it plays), one dispatcher thread per spawn.            *)
(*                                                                         *)
(* Library behaviour that is not in the source is kept nondeterministic:   *)
(*  - dropping the stream stops new callback invocations, but an           *)
(*    invocation already entered may still run to its end afterwards;      *)
(*  - every fallible call (`?`, expect, unwrap) may fail;                  *)
(*  - a successful write to the log writes its whole buffer.               *)
(* One callback invocation runs at a time (cb); an invocation left over    *)
(* from a dropped stream touches only that rotation's own Mutex.           *)
(* When main returns an error the process ends and every thread stops.     *)
(***************************************************************************)
EXTENDS Integers, Sequences, FiniteSets, TLC

\* ---------------------------------------------------------------- bounds
\* Number of loop iterations (rotations) of the controller that are explored.
MaxRot == 3
\* Number of callback invocations the streams deliver in one run.
MaxCb == 1
\* Number of samples in one callback input buffer.
BufLen == 2
\* Number of sample writes that fail in one run.
MaxFail == 1

Rots == 0 .. (MaxRot - 1)

VARIABLES
    sem,         \* main: `let mut sem = false`
    i,           \* main: slot index chosen in the current iteration
    rot,         \* number of the current loop iteration (0,1,2,...)
    ctl,         \* position of the controller thread in the loop body
    stream,      \* per rotation: state of the cpal input stream
    sinkLock,    \* per rotation: holder of the Mutex of the writer handle
    sinkW,       \* per rotation: the Option inside the Mutex
    sinkSlot,    \* per rotation: slot whose path the WavWriter was created on
    files,       \* per slot: the segment file on disk
    cb,          \* the audio callback thread (one invocation at a time)
    cbN,         \* callback invocations delivered so far
    fails,       \* sample writes that have failed so far
    cbOut,       \* how the last finished callback invocation ended
    disp,        \* the dispatcher threads, in spawn order
    log,         \* content of /tmp/log.txt, as a sequence of writes
    logLock,     \* holder of the log Mutex: 0 = free, n = dispatcher n
    logPoisoned, \* the log Mutex is poisoned
    config       \* main: the stream configuration of the run

vars == <<sem, i, rot, ctl, stream, sinkLock, sinkW, sinkSlot, files,
          cb, cbN, fails, cbOut, disp, log, logLock, logPoisoned, config>>

ctlVars  == <<sem, i, rot, ctl, stream, config>>
sinkVars == <<sinkLock, sinkW, sinkSlot>>
cbVars   == <<cb, cbN, fails, cbOut>>
logVars  == <<log, logLock, logPoisoned>>

\* ------------------------------------------------------------- constants
\* main.rs:86-87, 98: paths = vec![path_0, path_1]; paths[i] is Paths[i+1].
Paths == << "/tmp/recorded_0.wav", "/tmp/recorded_1.wav" >>

\* main.rs:104-109: the fixed stream configuration.
Config == [channels |-> 2, sample_rate |-> 16000, sample_format |-> "I16"]

\* cpal::SampleFormat::sample_size, in bytes.
SampleSize(format) ==
    CASE format \in {"I8", "U8"} -> 1
      [] format \in {"I16", "U16"} -> 2
      [] format \in {"I32", "U32", "F32"} -> 4
      [] format \in {"I64", "U64", "F64"} -> 8

\* Mutant of sample_format: every format is taken for an integer format.
sample_format_int(format) == "Int"

\* main.rs:156-162
sample_format(format) ==
    IF format \in {"F32", "F64"} THEN "Float" ELSE "Int"

\* main.rs:164-171
wav_spec_from_config(cfg) ==
    [ channels        |-> cfg.channels,
      sample_rate     |-> cfg.sample_rate,
      bits_per_sample |-> SampleSize(cfg.sample_format) * 8,
      sample_format   |-> sample_format(cfg.sample_format) ]

\* main.rs:145-150: what curl leaves on stdout. The code never looks at it
\* (nor at the exit status): "ok" stands for the body of a successful upload,
\* "fail" for whatever stdout holds after a transport error or a non-success
\* response.
Bodies == {"ok", "fail"}

NoFile == [exists |-> FALSE, spec |-> "none", data |-> << >>,
           finalized |-> FALSE, owner |-> -1]

CbIdle == [pc |-> "idle", rot |-> 0, n |-> 0, j |-> 0]

\* ------------------------------------------------------------------ Init
\* The state when main starts, with stream configuration c.
InitWith(c) ==
    /\ sem = FALSE
    /\ i = 0
    /\ rot = 0
    /\ ctl = "start"
    /\ stream = [k \in Rots |-> "none"]
    /\ sinkLock = [k \in Rots |-> "free"]
    /\ sinkW = [k \in Rots |-> "unborn"]
    /\ sinkSlot = [k \in Rots |-> -1]
    /\ files = [p \in 0 .. 1 |-> NoFile]
    /\ cb = CbIdle
    /\ cbN = 0
    /\ fails = 0
    /\ cbOut = "none"
    /\ disp = << >>
    /\ log = << >>
    /\ logLock = 0
    /\ logPoisoned = FALSE
    /\ config = c

\* main.rs:37-109: the program's start; the configuration is the fixed one.
Init == InitWith(Config)

\* Stream configurations: channel counts, sample rates and every sample
\* format of cpal::SampleFormat.
Configs ==
    [ channels : {1, 2},
      sample_rate : {16000, 44100},
      sample_format : {"I8", "I16", "I32", "I64", "U8", "U16", "U32", "U64",
                       "F32", "F64"} ]

\* The program's start under any of the stream configurations.
InitCfg == \E c \in Configs : InitWith(c)

\* The process is alive: main has not returned an error.
Running == ctl # "exit_err"

\* Mutant of SlotIndex: every rotation records to slot 0.
SlotIndexSame(s) == 0

\* --------------------------------------------------------- the controller
\* main.rs:99: i = if sem { 1 } else { 0 }
SlotIndex(s) == IF s THEN 1 ELSE 0

\* Mutant of Toggle: the flag is never flipped.
ToggleStuck(s) == s

\* main.rs:100: sem = !sem
Toggle(s) == ~s

\* main.rs:75-93: startup: the input device is looked up and the log file
\* is created; either expect() panics on failure and the process ends.
CtlStart ==
    /\ ctl = "start"
    /\ ctl' \in {"create", "exit_err"}
    /\ UNCHANGED <<config, sem, i, rot, stream, sinkVars, files, cbVars, disp, logVars>>

\* main.rs:95-114: top of the loop body: slot selection (local to the
\* controller), then WavWriter::create(&paths[i], spec)? and the handle.
CtlCreate ==
    /\ ctl = "create"
    /\ rot < MaxRot
    /\ i' = SlotIndex(sem)
    /\ sem' = Toggle(sem)
    /\ \/ /\ files' = [files EXCEPT ![i'] =
                          [exists |-> TRUE,
                           spec |-> wav_spec_from_config(config),
                           data |-> << >>,
                           finalized |-> FALSE,
                           owner |-> rot]]
          /\ sinkW' = [sinkW EXCEPT ![rot] = "Some"]
          /\ sinkSlot' = [sinkSlot EXCEPT ![rot] = i']
          /\ ctl' = "build"
       \/ /\ ctl' = "exit_err"
          /\ UNCHANGED <<files, sinkW, sinkSlot>>
    /\ UNCHANGED <<config, rot, stream, sinkLock, cbVars, disp, logVars>>

\* Mutant of CtlBuild: a failed build_input_stream is ignored and the loop
\* body goes on without a stream.
CtlBuildDegraded ==
    /\ ctl = "build"
    /\ \/ stream' = [stream EXCEPT ![rot] = "built"]
       \/ UNCHANGED stream
    /\ ctl' = "play"
    /\ UNCHANGED <<config, sem, i, rot, sinkVars, files, cbVars, disp, logVars>>

\* main.rs:123-128: device.build_input_stream(...)?
CtlBuild ==
    /\ ctl = "build"
    /\ \/ /\ stream' = [stream EXCEPT ![rot] = "built"]
          /\ ctl' = "play"
       \/ /\ ctl' = "exit_err"
          /\ UNCHANGED stream
    /\ UNCHANGED <<config, sem, i, rot, sinkVars, files, cbVars, disp, logVars>>

\* Mutant of CtlPlay: the controller does not sleep after starting the
\* stream but goes on to finalize at once, the stream still playing.
CtlPlaySkipsRecording ==
    /\ ctl = "play"
    /\ \/ /\ stream' = [stream EXCEPT ![rot] = "playing"]
          /\ ctl' = "lock"
       \/ /\ ctl' = "exit_err"
          /\ UNCHANGED stream
    /\ UNCHANGED <<config, sem, i, rot, sinkVars, files, cbVars, disp, logVars>>

\* Mutant of CtlPlay: the controller locks the sink when it starts the
\* stream and keeps the guard while it sleeps.
CtlPlayHoldsLock ==
    /\ ctl = "play"
    /\ \/ /\ stream' = [stream EXCEPT ![rot] = "playing"]
          /\ sinkLock' = [sinkLock EXCEPT ![rot] = "ctl"]
          /\ ctl' = "sleep"
       \/ /\ ctl' = "exit_err"
          /\ UNCHANGED <<stream, sinkLock>>
    /\ UNCHANGED <<config, sem, i, rot, sinkW, sinkSlot, files, cbVars, disp, logVars>>

\* main.rs:130: stream.play()?
CtlPlay ==
    /\ ctl = "play"
    /\ \/ /\ stream' = [stream EXCEPT ![rot] = "playing"]
          /\ ctl' = "sleep"
       \/ /\ ctl' = "exit_err"
          /\ UNCHANGED stream
    /\ UNCHANGED <<config, sem, i, rot, sinkVars, files, cbVars, disp, logVars>>

\* Mutant of CtlDrop: the stream is kept alive instead of being dropped.
CtlDropLeak ==
    /\ ctl = "sleep"
    /\ ctl' = "lock"
    /\ UNCHANGED <<config, sem, i, rot, stream, sinkVars, files, cbVars, disp, logVars>>

\* main.rs:133-134: thread::sleep(BUFFERTIME) returns; drop(stream).
CtlDrop ==
    /\ ctl = "sleep"
    /\ stream' = [stream EXCEPT ![rot] = "dropped"]
    /\ ctl' = "lock"
    /\ UNCHANGED <<config, sem, i, rot, sinkVars, files, cbVars, disp, logVars>>

\* Mutant of CtlLock: the controller does not wait for the lock.
CtlLockNoWait ==
    /\ ctl = "lock"
    /\ sinkLock' = [sinkLock EXCEPT ![rot] = "ctl"]
    /\ ctl' = "finalize"
    /\ UNCHANGED <<config, sem, i, rot, stream, sinkW, sinkSlot, files, cbVars, disp, logVars>>

\* main.rs:135: writer.lock().unwrap()  -- blocking acquire
CtlLock ==
    /\ ctl = "lock"
    /\ sinkLock[rot] = "free"
    /\ sinkLock' = [sinkLock EXCEPT ![rot] = "ctl"]
    /\ ctl' = "finalize"
    /\ UNCHANGED <<config, sem, i, rot, stream, sinkW, sinkSlot, files, cbVars, disp, logVars>>

\* Mutant of CtlFinalize: the error of finalize() is ignored and the loop
\* body goes on to the spawn.
CtlFinalizeIgnoreErr ==
    /\ ctl = "finalize"
    /\ sinkW[rot] = "Some"
    /\ sinkW' = [sinkW EXCEPT ![rot] = "None"]
    /\ sinkLock' = [sinkLock EXCEPT ![rot] = "free"]
    /\ \/ files' = [files EXCEPT ![sinkSlot[rot]].finalized = TRUE]
       \/ UNCHANGED files
    /\ ctl' = "spawn"
    /\ UNCHANGED <<config, sem, i, rot, stream, sinkSlot, cbVars, disp, logVars>>

\* main.rs:135: .take().unwrap().finalize()?  -- the Option becomes None
\* and the taken writer is finalized. The guard is a temporary of the
\* statement: the lock is released when the statement ends, on success and
\* on error.
CtlFinalize ==
    /\ ctl = "finalize"
    /\ sinkW[rot] = "Some"
    /\ sinkW' = [sinkW EXCEPT ![rot] = "None"]
    /\ sinkLock' = [sinkLock EXCEPT ![rot] = "free"]
    /\ \/ /\ files' = [files EXCEPT ![sinkSlot[rot]].finalized = TRUE]
          /\ ctl' = "spawn"
       \/ /\ ctl' = "exit_err"
          /\ UNCHANGED files
    /\ UNCHANGED <<config, sem, i, rot, stream, sinkSlot, cbVars, disp, logVars>>

\* Mutant of CtlSpawn: the controller joins the earlier dispatchers before
\* it spawns the next one.
CtlSpawnJoin ==
    /\ ctl = "spawn"
    /\ \A n \in DOMAIN disp : disp[n].pc \notin {"curl", "lock", "nl"}
    /\ disp' = Append(disp, [k |-> rot, i |-> i, path |-> Paths[i + 1],
                             pc |-> "curl", body |-> ""])
    /\ rot' = rot + 1
    /\ ctl' = "create"
    /\ UNCHANGED <<config, sem, i, stream, sinkVars, files, cbVars, logVars>>

\* main.rs:139-153: thread::spawn of the dispatcher closure (which owns
\* paths and i), then the loop body ends and the next iteration begins.
CtlSpawn ==
    /\ ctl = "spawn"
    /\ disp' = Append(disp, [k |-> rot, i |-> i, path |-> Paths[i + 1],
                             pc |-> "curl", body |-> ""])
    /\ rot' = rot + 1
    /\ ctl' = "create"
    /\ UNCHANGED <<config, sem, i, stream, sinkVars, files, cbVars, logVars>>

Controller ==
    \/ CtlStart
    \/ CtlCreate \/ CtlBuild \/ CtlPlay \/ CtlDrop
    \/ CtlLock \/ CtlFinalize \/ CtlSpawn

\* ----------------------------------------------------- the audio callback
\* main.rs:125: the stream of rotation k invokes the closure with a buffer;
\* at most m invocations are delivered in a run.
CbDeliver(k, m) ==
    /\ Running
    /\ stream[k] = "playing"
    /\ cb.pc = "idle"
    /\ cbN < m
    /\ cb' = [pc |-> "try", rot |-> k, n |-> cbN + 1, j |-> 0]
    /\ cbN' = cbN + 1
    /\ UNCHANGED <<ctlVars, sinkVars, files, fails, cbOut, disp, logVars>>

CbEnter(k) == CbDeliver(k, MaxCb)

\* Mutant of CbTryLock: a blocking lock() in place of try_lock(): the
\* invocation waits until the lock is free.
CbTryLockBlocking ==
    /\ Running
    /\ cb.pc = "try"
    /\ sinkLock[cb.rot] = "free"
    /\ IF sinkW[cb.rot] # "Some"
         THEN /\ cb' = CbIdle
              /\ cbOut' = "absent"
              /\ UNCHANGED sinkLock
         ELSE /\ sinkLock' = [sinkLock EXCEPT ![cb.rot] = "cb"]
              /\ cb' = [cb EXCEPT !.pc = "loop", !.j = 1]
              /\ UNCHANGED cbOut
    /\ UNCHANGED <<ctlVars, sinkW, sinkSlot, files, cbN, fails, disp, logVars>>

\* Mutant of CbTryLock: the Option is not examined: the invocation writes
\* whether or not a writer is present.
CbTryLockNoCheck ==
    /\ Running
    /\ cb.pc = "try"
    /\ IF sinkLock[cb.rot] # "free"
         THEN /\ cb' = CbIdle
              /\ cbOut' = "contended"
              /\ UNCHANGED sinkLock
         ELSE /\ sinkLock' = [sinkLock EXCEPT ![cb.rot] = "cb"]
              /\ cb' = [cb EXCEPT !.pc = "loop", !.j = 1]
              /\ UNCHANGED cbOut
    /\ UNCHANGED <<ctlVars, sinkW, sinkSlot, files, cbN, fails, disp, logVars>>

\* main.rs:180-181: if let Ok(mut guard) = writer.try_lock() -- one attempt,
\* never a wait; then, under the guard, if let Some(writer) = guard.as_mut().
\* A held lock or an absent writer ends the invocation without a write.
CbTryLock ==
    /\ Running
    /\ cb.pc = "try"
    /\ IF sinkLock[cb.rot] # "free"
         THEN /\ cb' = CbIdle
              /\ cbOut' = "contended"
              /\ UNCHANGED sinkLock
         ELSE IF sinkW[cb.rot] # "Some"
         THEN /\ cb' = CbIdle
              /\ cbOut' = "absent"
              /\ UNCHANGED sinkLock
         ELSE /\ sinkLock' = [sinkLock EXCEPT ![cb.rot] = "cb"]
              /\ cb' = [cb EXCEPT !.pc = "loop", !.j = 1]
              /\ UNCHANGED cbOut
    /\ UNCHANGED <<ctlVars, sinkW, sinkSlot, files, cbN, fails, disp, logVars>>

\* Mutant of CbWrite: the guard is not dropped when the invocation returns,
\* so the sink lock stays held by the callback.
CbWriteKeepsLock ==
    /\ Running
    /\ cb.pc = "loop"
    /\ \/ /\ files' = [files EXCEPT ![sinkSlot[cb.rot]].data =
                          Append(@, <<cb.rot, cb.n, cb.j>>)]
          /\ UNCHANGED fails
       \/ /\ fails < MaxFail
          /\ fails' = fails + 1
          /\ UNCHANGED files
    /\ IF cb.j < BufLen
         THEN /\ cb' = [cb EXCEPT !.j = cb.j + 1]
              /\ UNCHANGED <<sinkLock, cbOut>>
         ELSE /\ cb' = CbIdle
              /\ cbOut' = "wrote"
              /\ UNCHANGED sinkLock
    /\ UNCHANGED <<ctlVars, sinkW, sinkSlot, cbN, disp, logVars>>

\* Mutant of CbWrite: the lock is taken for one sample only; the invocation
\* returns after its first sample.
CbWriteEarlyRelease ==
    /\ Running
    /\ cb.pc = "loop"
    /\ \/ /\ files' = [files EXCEPT ![sinkSlot[cb.rot]].data =
                          Append(@, <<cb.rot, cb.n, cb.j>>)]
          /\ UNCHANGED fails
       \/ /\ fails < MaxFail
          /\ fails' = fails + 1
          /\ UNCHANGED files
    /\ cb' = CbIdle
    /\ cbOut' = "wrote"
    /\ sinkLock' = [sinkLock EXCEPT ![cb.rot] = "free"]
    /\ UNCHANGED <<ctlVars, sinkW, sinkSlot, cbN, disp, logVars>>

\* main.rs:182-185: one iteration of the sample loop; write_sample(..).ok()
\* ignores a failed write. After the last sample the guard is dropped.
CbWrite ==
    /\ Running
    /\ cb.pc = "loop"
    /\ \/ /\ files' = [files EXCEPT ![sinkSlot[cb.rot]].data =
                          Append(@, <<cb.rot, cb.n, cb.j>>)]
          /\ UNCHANGED fails
       \/ /\ fails < MaxFail
          /\ fails' = fails + 1
          /\ UNCHANGED files
    /\ IF cb.j < BufLen
         THEN /\ cb' = [cb EXCEPT !.j = cb.j + 1]
              /\ UNCHANGED <<sinkLock, cbOut>>
         ELSE /\ cb' = CbIdle
              /\ cbOut' = "wrote"
              /\ sinkLock' = [sinkLock EXCEPT ![cb.rot] = "free"]
    /\ UNCHANGED <<ctlVars, sinkW, sinkSlot, cbN, disp, logVars>>

Callback ==
    \/ \E k \in Rots : CbEnter(k)
    \/ CbTryLock \/ CbWrite

\* --------------------------------------------------------- the dispatchers
Panicked == {"exec_panic", "poison_panic", "write_panic"}

\* Dispatcher n has been spawned and its closure has not ended.
InFlight(n) == disp[n].pc \notin ({"done"} \cup Panicked)

\* Mutant of DispUpload: the failure to execute curl ends the process.
DispUploadPropagates(n) ==
    /\ Running
    /\ disp[n].pc = "curl"
    /\ \/ /\ \E b \in Bodies :
                disp' = [disp EXCEPT ![n].pc = "lock", ![n].body = b]
          /\ UNCHANGED ctlVars
       \/ /\ disp' = [disp EXCEPT ![n].pc = "exec_panic"]
          /\ ctl' = "exit_err"
          /\ UNCHANGED <<config, sem, i, rot, stream>>
    /\ UNCHANGED <<sinkVars, files, cbVars, logVars>>

\* main.rs:141-147: curl reads the file at the path and returns its stdout;
\* expect() panics the dispatcher thread when curl cannot be executed.
DispUpload(n) ==
    /\ Running
    /\ disp[n].pc = "curl"
    /\ \/ \E b \in Bodies :
             disp' = [disp EXCEPT ![n].pc = "lock", ![n].body = b]
       \/ disp' = [disp EXCEPT ![n].pc = "exec_panic"]
    /\ UNCHANGED <<ctlVars, sinkVars, files, cbVars, logVars>>

\* Mutant of DispWriteBody: the guard is dropped after the first write, so
\* the newline is written outside the critical section.
DispWriteBodyUnlock(n) ==
    /\ Running
    /\ disp[n].pc = "lock"
    /\ logLock = 0
    /\ IF logPoisoned
         THEN /\ disp' = [disp EXCEPT ![n].pc = "poison_panic", ![n].body = ""]
              /\ UNCHANGED logVars
         ELSE \/ /\ log' = Append(log, [d |-> n, part |-> "body",
                                         text |-> disp[n].body])
                 /\ disp' = [disp EXCEPT ![n].pc = "nl", ![n].body = ""]
                 /\ UNCHANGED <<logLock, logPoisoned>>
              \/ /\ disp' = [disp EXCEPT ![n].pc = "write_panic", ![n].body = ""]
                 /\ logPoisoned' = TRUE
                 /\ UNCHANGED <<log, logLock>>
    /\ UNCHANGED <<ctlVars, sinkVars, files, cbVars>>

\* Mutant of DispWriteBody: a dispatcher takes the log lock only after every
\* dispatcher spawned before it has ended (the log follows segment order).
DispWriteBodyInOrder(n) ==
    /\ Running
    /\ disp[n].pc = "lock"
    /\ logLock = 0
    /\ \A m \in 1 .. (n - 1) : ~InFlight(m)
    /\ IF logPoisoned
         THEN /\ disp' = [disp EXCEPT ![n].pc = "poison_panic", ![n].body = ""]
              /\ UNCHANGED logVars
         ELSE \/ /\ log' = Append(log, [d |-> n, part |-> "body",
                                         text |-> disp[n].body])
                 /\ disp' = [disp EXCEPT ![n].pc = "nl", ![n].body = ""]
                 /\ logLock' = n
                 /\ UNCHANGED logPoisoned
              \/ /\ disp' = [disp EXCEPT ![n].pc = "write_panic", ![n].body = ""]
                 /\ logPoisoned' = TRUE
                 /\ UNCHANGED <<log, logLock>>
    /\ UNCHANGED <<ctlVars, sinkVars, files, cbVars>>

\* Mutant of DispWriteBody: a poisoned lock is taken all the same (the
\* guard is recovered from the PoisonError) and the entry is written.
DispWriteBodyIgnorePoison(n) ==
    /\ Running
    /\ disp[n].pc = "lock"
    /\ logLock = 0
    /\ \/ /\ log' = Append(log, [d |-> n, part |-> "body",
                                   text |-> disp[n].body])
          /\ disp' = [disp EXCEPT ![n].pc = "nl", ![n].body = ""]
          /\ logLock' = n
          /\ UNCHANGED logPoisoned
       \/ /\ disp' = [disp EXCEPT ![n].pc = "write_panic", ![n].body = ""]
          /\ logPoisoned' = TRUE
          /\ UNCHANGED <<log, logLock>>
    /\ UNCHANGED <<ctlVars, sinkVars, files, cbVars>>

\* main.rs:149-150: file_clone.lock().unwrap() -- a blocking acquire that
\* panics if the Mutex is poisoned -- then, under the guard,
\* file.write(&output.stdout).expect(..): a panic while the guard is held
\* poisons the Mutex and releases it.
DispWriteBody(n) ==
    /\ Running
    /\ disp[n].pc = "lock"
    /\ logLock = 0
    /\ IF logPoisoned
         THEN /\ disp' = [disp EXCEPT ![n].pc = "poison_panic", ![n].body = ""]
              /\ UNCHANGED logVars
         ELSE \/ /\ log' = Append(log, [d |-> n, part |-> "body",
                                         text |-> disp[n].body])
                 /\ disp' = [disp EXCEPT ![n].pc = "nl", ![n].body = ""]
                 /\ logLock' = n
                 /\ UNCHANGED logPoisoned
              \/ /\ disp' = [disp EXCEPT ![n].pc = "write_panic", ![n].body = ""]
                 /\ logPoisoned' = TRUE
                 /\ UNCHANGED <<log, logLock>>
    /\ UNCHANGED <<ctlVars, sinkVars, files, cbVars>>

\* Mutant of DispWriteNl: the guard is leaked (never dropped) when the
\* closure ends, so the log lock stays held.
DispWriteNlLeak(n) ==
    /\ Running
    /\ disp[n].pc = "nl"
    /\ \/ /\ log' = Append(log, [d |-> n, part |-> "nl", text |-> "\n"])
          /\ disp' = [disp EXCEPT ![n].pc = "done"]
          /\ UNCHANGED <<logLock, logPoisoned>>
       \/ /\ disp' = [disp EXCEPT ![n].pc = "write_panic", ![n].body = ""]
          /\ logLock' = 0
          /\ logPoisoned' = TRUE
          /\ UNCHANGED log
    /\ UNCHANGED <<ctlVars, sinkVars, files, cbVars>>

\* main.rs:151-152: file.write("\n").expect(..); the guard drops at the end
\* of the closure.
DispWriteNl(n) ==
    /\ Running
    /\ disp[n].pc = "nl"
    /\ \/ /\ log' = Append(log, [d |-> n, part |-> "nl", text |-> "\n"])
          /\ disp' = [disp EXCEPT ![n].pc = "done"]
          /\ logLock' = 0
          /\ UNCHANGED logPoisoned
       \/ /\ disp' = [disp EXCEPT ![n].pc = "write_panic", ![n].body = ""]
          /\ logLock' = 0
          /\ logPoisoned' = TRUE
          /\ UNCHANGED log
    /\ UNCHANGED <<ctlVars, sinkVars, files, cbVars>>

Dispatcher(n) ==
    \/ DispUpload(n) \/ DispWriteBody(n) \/ DispWriteNl(n)

Dispatchers == \E n \in DOMAIN disp : Dispatcher(n)

\* ------------------------------------------------------------------ Spec
Next == Controller \/ Callback \/ Dispatchers

Spec == Init /\ [][Next]_vars

\* Scheduling: the controller thread keeps running (a sleep returns, a lock
\* that stays free is obtained), a callback invocation that has been entered
\* runs to its end, and every spawned dispatcher thread keeps running.
Fairness ==
    /\ WF_vars(Controller)
    /\ WF_vars(CbTryLock \/ CbWrite)
    /\ \A n \in 1 .. MaxRot : WF_vars(n \in DOMAIN disp /\ Dispatcher(n))

FairSpec == Spec /\ Fairness

\* The controller and the callback under every stream configuration.
NextCfg == Controller \/ Callback

SpecCfg == InitCfg /\ [][NextCfg]_vars

\* The controller and the callback alone (the dispatchers touch neither the
\* sink nor the files), with two more callback invocations delivered.
NextCb ==
    \/ Controller
    \/ \E k \in Rots : CbDeliver(k, MaxCb + 2)
    \/ CbTryLock \/ CbWrite

SpecCb == Init /\ [][NextCb]_vars

FairnessCb ==
    /\ WF_vars(Controller)
    /\ WF_vars(CbTryLock \/ CbWrite)

FairSpecCb == SpecCb /\ FairnessCb

\* The controller and the dispatchers alone (the callback touches neither
\* the dispatchers nor the log).
NextLog == Controller \/ Dispatchers

FairnessLog ==
    /\ WF_vars(Controller)
    /\ \A n \in 1 .. MaxRot : WF_vars(n \in DOMAIN disp /\ Dispatcher(n))

FairSpecLog == Init /\ [][NextLog]_vars /\ FairnessLog

TypeOK ==
    /\ sem \in BOOLEAN
    /\ i \in 0 .. 1
    /\ rot \in 0 .. MaxRot
    /\ ctl \in {"start", "create", "build", "play", "sleep", "lock", "finalize",
                "spawn", "exit_err"}
    /\ \A k \in Rots :
          /\ stream[k] \in {"none", "built", "playing", "dropped"}
          /\ sinkLock[k] \in {"free", "ctl", "cb"}
          /\ sinkW[k] \in {"unborn", "Some", "None"}
          /\ sinkSlot[k] \in -1 .. 1
    /\ cb.pc \in {"idle", "try", "loop"}
    /\ cbN \in 0 .. MaxCb
    /\ fails \in 0 .. MaxFail
    /\ cbOut \in {"none", "contended", "absent", "wrote"}
    /\ \A n \in DOMAIN disp :
          disp[n].pc \in {"curl", "lock", "nl", "done"} \cup Panicked
    /\ logLock \in 0 .. Len(disp)
    /\ logPoisoned \in BOOLEAN

\* ====================================================================
\* Properties
\* ====================================================================

PathOf(k) == Paths[sinkSlot[k] + 1]

\* C1: the slot index selected at rotation k is k mod 2 (0,1,0,1,...
\* starting at 0), so the path created at rotation k is the path of rotation
\* k-2 and differs from the path of rotation k-1.
C1_SlotAlternates ==
    /\ (ctl # "create") => i = rot % 2
    /\ \A k \in Rots :
          sinkSlot[k] # -1 =>
             /\ sinkSlot[k] = k % 2
             /\ (k >= 1 => PathOf(k) # PathOf(k - 1))
             /\ (k >= 2 => PathOf(k) = PathOf(k - 2))
    /\ \A n \in DOMAIN disp :
          disp[n].i = disp[n].k % 2 /\ disp[n].path = Paths[(disp[n].k % 2) + 1]

\* Three rotations have created their file: slots 0, 1, 0.
C1_Witness ==
    sinkSlot[0] = 0 /\ sinkSlot[1] = 1 /\ sinkSlot[2] = 0

\* Rotations whose stream exists (built or playing, not yet dropped).
LiveStreams == {k \in Rots : stream[k] \in {"built", "playing"}}

\* Rotations whose sink holds an open writer.
OpenSinks == {k \in Rots : sinkW[k] = "Some"}

\* Slots that are being recorded to.
RecordingSlots == {sinkSlot[k] : k \in {r \in Rots : stream[r] = "playing"}}

\* C2: at most one slot is actively recording; the stream of rotation k is
\* dropped and its sink finalized (writer taken) before the sink and stream
\* of rotation k+1 are created, so two streams or two open sinks never exist
\* at the same time.
C2_OneActiveSlot ==
    /\ Cardinality(LiveStreams) <= 1
    /\ Cardinality(OpenSinks) <= 1
    /\ Cardinality(RecordingSlots) <= 1
    /\ \A k \in Rots :
          (k >= 1 /\ (sinkW[k] # "unborn" \/ stream[k] # "none")) =>
             /\ stream[k - 1] = "dropped"
             /\ sinkW[k - 1] = "None"
             /\ sinkLock[k - 1] # "ctl"

\* Rotation 1 is recording after rotation 0 was stopped and finalized.
C2_Witness ==
    /\ stream[1] = "playing"
    /\ stream[0] = "dropped"
    /\ sinkW[0] = "None"
    /\ sinkW[1] = "Some"

\* A callback step taken while the sink lock is held by someone else.
ContendedStep ==
    /\ cb.pc = "try"
    /\ sinkLock[cb.rot] # "free"
    /\ cb' # cb

\* C3: the audio callback never waits for the sink lock: an invocation that
\* finds the lock held can always take its step, and that step returns at
\* once (back to idle) without writing and without touching the lock; only
\* the controller's acquire waits (it is disabled while the lock is held).
C3_CallbackNeverWaits ==
    /\ []((Running /\ cb.pc = "try") => ENABLED CbTryLock)
    /\ [][ContendedStep =>
            /\ cb' = CbIdle
            /\ cbOut' = "contended"
            /\ UNCHANGED <<files, sinkVars>>]_vars
    /\ []((ctl = "lock" /\ sinkLock[rot] # "free") => ~ENABLED Controller)

\* A callback invocation found the lock held by the finalizing controller
\* and has returned without a write.
C3_Witness ==
    /\ cbOut = "contended"
    /\ cb = CbIdle
    /\ ctl = "finalize"
    /\ sinkLock[rot] = "ctl"

\* The write of one sample: a callback in its loop, holding the lock of a
\* sink whose writer is present, appends one sample to the writer's file.
SampleAppend(p) ==
    /\ cb.pc = "loop"
    /\ sinkLock[cb.rot] = "cb"
    /\ sinkW[cb.rot] = "Some"
    /\ sinkSlot[cb.rot] = p
    /\ ~files[p].finalized
    /\ files[p].owner = cb.rot
    /\ files'[p] = [files[p] EXCEPT !.data = Append(@, <<cb.rot, cb.n, cb.j>>)]

\* The creation of the file of slot p by the controller, at the start of a
\* rotation.
FileCreate(p) ==
    /\ ctl = "create"
    /\ ctl' = "build"
    /\ i' = p
    /\ files'[p].data = << >>
    /\ files'[p].owner = rot

\* The finalize of the file of slot p by the controller.
FileFinalize(p) ==
    /\ ctl = "finalize"
    /\ ctl' = "spawn"
    /\ sinkSlot[rot] = p
    /\ sinkW[rot] = "Some" /\ sinkW'[rot] = "None"
    /\ files'[p] = [files[p] EXCEPT !.finalized = TRUE]

\* C4: no sample is appended to a sink in the absent state: a file changes
\* only by its creation, by the append of one sample under an open writer,
\* or by its finalize; within a rotation its sample count never decreases;
\* and a finalized file stays as it is until the slot's file is re-created
\* two rotations later.
C4_NoWriteWhenAbsent ==
    [][\A p \in 0 .. 1 :
          /\ files'[p] # files[p] =>
                FileCreate(p) \/ SampleAppend(p) \/ FileFinalize(p)
          /\ (files'[p].owner = files[p].owner) =>
                Len(files'[p].data) >= Len(files[p].data)
          /\ (files[p].finalized /\ files'[p] # files[p]) =>
                (FileCreate(p) /\ rot = files[p].owner + 2)
          /\ (cb.pc = "try" /\ cb' # cb /\ sinkW[cb.rot] # "Some") =>
                (cb' = CbIdle /\ files' = files)
      ]_vars

\* A callback invocation ran after the controller took the writer: it was a
\* no-op and the finalized file holds what was written before.
C4_Witness ==
    /\ cbOut = "absent"
    /\ cb = CbIdle
    /\ files[0].finalized
    /\ files[0].owner = 0

\* C5: callback writes and the controller's take/finalize exclude each
\* other: the callback is in its sample loop only while it holds the lock
\* of its sink, the controller takes and finalizes only while it holds the
\* lock, the lock has one holder, and a finalized file holds only whole
\* buffers' samples of its own rotation, in input order.
C5_WriteFinalizeExclusive ==
    /\ ~(cb.pc = "loop" /\ ctl = "finalize" /\ cb.rot = rot)
    /\ (cb.pc = "loop") => (sinkLock[cb.rot] = "cb" /\ sinkW[cb.rot] = "Some")
    /\ (ctl = "finalize") => sinkLock[rot] = "ctl"
    /\ \A k \in Rots :
          /\ (sinkLock[k] = "cb") => (cb.pc = "loop" /\ cb.rot = k)
          /\ (sinkLock[k] = "ctl") => (ctl = "finalize" /\ rot = k)
    /\ \A p \in 0 .. 1 :
          files[p].finalized =>
             \A m \in 1 .. Len(files[p].data) :
                /\ files[p].data[m][1] = files[p].owner
                /\ (m > 1) => \/ files[p].data[m - 1][2] < files[p].data[m][2]
                              \/ /\ files[p].data[m - 1][2] = files[p].data[m][2]
                                 /\ files[p].data[m - 1][3] < files[p].data[m][3]

\* The controller has stopped the stream and waits for the lock while a
\* callback invocation is still inside its sample loop.
C5_Witness ==
    /\ ctl = "lock"
    /\ stream[rot] = "dropped"
    /\ cb.pc = "loop"
    /\ cb.rot = rot
    /\ sinkLock[rot] = "cb"

\* C6: the controller never waits for a dispatch: whatever the dispatchers
\* and the log lock are doing, the controller has a step to take unless it
\* is waiting for the sink lock (or the process has ended, or the explored
\* number of rotations is reached).
C6_ControllerNeverWaitsForDispatch ==
    ( /\ Running
      /\ ~(ctl = "create" /\ rot = MaxRot)
      /\ ~(ctl = "lock" /\ sinkLock[rot] # "free") )
    => ENABLED Controller

\* Rotation k+1 is recording while the dispatch of rotation k is in flight
\* and holds the log lock.
C6_Witness ==
    /\ rot = 1
    /\ ctl = "sleep"
    /\ stream[1] = "playing"
    /\ Len(disp) = 1
    /\ disp[1].k = 0
    /\ disp[1].pc = "nl"
    /\ logLock = 1

\* s is a prefix of t.
IsPrefix(s, t) == Len(s) <= Len(t) /\ SubSeq(t, 1, Len(s)) = s

\* Every body in the log is directly followed by the newline of the same
\* dispatcher, unless it is the last write and its dispatcher is still in
\* the critical section (or died in it); every newline directly follows the
\* body of the same dispatcher; no dispatcher has two entries.
LogWellFormed ==
    /\ \A m \in 1 .. Len(log) :
          /\ (log[m].part = "body" /\ m < Len(log)) =>
                (log[m + 1].part = "nl" /\ log[m + 1].d = log[m].d)
          /\ (log[m].part = "body" /\ m = Len(log)) =>
                \/ (disp[log[m].d].pc = "nl" /\ logLock = log[m].d)
                \/ (disp[log[m].d].pc = "write_panic" /\ logPoisoned)
          /\ (log[m].part = "nl") =>
                (m > 1 /\ log[m - 1].part = "body" /\ log[m - 1].d = log[m].d)
    /\ \A m1, m2 \in 1 .. Len(log) :
          (log[m1].d = log[m2].d /\ log[m1].part = log[m2].part) => m1 = m2

\* C7: for any number of concurrent dispatchers and any completion order,
\* each log entry is a response body directly followed by the newline of
\* the same dispatcher, both written under one acquisition of the log lock;
\* the log only grows by appending.
C7_LogEntriesAtomic ==
    /\ []LogWellFormed
    /\ [][IsPrefix(log, log')]_vars
    /\ [][\A n \in DOMAIN disp :
             (disp[n].pc = "nl" /\ disp'[n].pc = "done") =>
                /\ logLock = n
                /\ log' = Append(log, [d |-> n, part |-> "nl", text |-> "\n"])
                /\ log[Len(log)].d = n /\ log[Len(log)].part = "body"]_vars

\* Two dispatchers ran concurrently and completed in the reverse of their
\* spawn order; both entries are whole.
C7_Witness ==
    /\ Len(log) = 4
    /\ log[1].d = 2 /\ log[2].d = 2
    /\ log[3].d = 1 /\ log[4].d = 1
    /\ disp[1].pc = "done" /\ disp[2].pc = "done"

\* The step in which the upload of dispatcher n fails: curl could not be
\* executed (the thread panics), or it returned after a transport error or
\* a non-success response.
UploadFailureStep(n) ==
    /\ disp[n].pc = "curl"
    /\ \/ disp'[n].pc = "exec_panic"
       \/ (disp'[n].pc = "lock" /\ disp'[n].body = "fail")

\* C8: an upload failure in a dispatcher never propagates: the failing step
\* changes nothing of the controller, the sink, the files, the callback, the
\* log lock or the other dispatchers; the log lock is poisoned only by a
\* failed log write; and while the lock is free and not poisoned every
\* dispatcher that waits for it can take it and append.
C8_UploadFailureContained ==
    /\ [][\A n \in DOMAIN disp :
             UploadFailureStep(n) =>
                /\ UNCHANGED <<ctlVars, sinkVars, files, cbVars, logVars>>
                /\ Len(disp') = Len(disp)
                /\ \A m \in DOMAIN disp : m # n => disp'[m] = disp[m]]_vars
    /\ [](logPoisoned => \E n \in DOMAIN disp : disp[n].pc = "write_panic")
    /\ [](\A n \in DOMAIN disp :
             (Running /\ disp[n].pc = "lock" /\ logLock = 0)
                => ENABLED DispWriteBody(n))
    /\ []((logLock # 0) => disp[logLock].pc = "nl")

\* The first upload could not be executed, the controller went on to its
\* third rotation, and the second dispatch has appended its entry.
C8_Witness ==
    /\ Len(disp) = 2
    /\ disp[1].pc = "exec_panic"
    /\ disp[2].pc = "done"
    /\ log = << [d |-> 2, part |-> "body", text |-> "fail"],
                [d |-> 2, part |-> "nl", text |-> "\n"] >>
    /\ rot = 2
    /\ ctl = "sleep"

\* The dispatchers spawned for rotation k.
DispOf(k) == {n \in DOMAIN disp : disp[n].k = k}

\* C9: each completed recording produces exactly one dispatch: a dispatcher
\* is spawned only by the controller after the finalize of the current
\* rotation has returned successfully, for that rotation's path and slot;
\* every rotation the controller has left has exactly one dispatcher and no
\* other rotation has any.
C9_OneDispatchPerRecording ==
    /\ [](\A k \in Rots :
             Cardinality(DispOf(k)) = (IF k < rot THEN 1 ELSE 0))
    /\ [](\A n \in DOMAIN disp :
             /\ disp[n].k \in Rots
             /\ disp[n].i = sinkSlot[disp[n].k]
             /\ disp[n].path = PathOf(disp[n].k)
             /\ sinkW[disp[n].k] = "None"
             /\ stream[disp[n].k] = "dropped")
    /\ [][disp' # disp /\ Len(disp') # Len(disp) =>
             /\ ctl = "spawn"
             /\ files[sinkSlot[rot]].finalized
             /\ files[sinkSlot[rot]].owner = rot
             /\ sinkLock[rot] = "free"
             /\ disp' = Append(disp, [k |-> rot, i |-> sinkSlot[rot],
                                      path |-> PathOf(rot),
                                      pc |-> "curl", body |-> ""])]_vars

\* Two recordings completed and were dispatched; the finalize of the third
\* failed and no dispatcher exists for it.
C9_Witness ==
    /\ Len(disp) = 2
    /\ rot = 2
    /\ ctl = "exit_err"
    /\ sinkW[2] = "None"
    /\ ~files[0].finalized
    /\ DispOf(2) = {}

\* Dispatchers in flight that were handed the path of slot p.
InFlightOn(p) == {n \in DOMAIN disp : disp[n].i = p /\ InFlight(n)}

\* C10: at most one dispatch is in flight per path, and the file of a
\* dispatcher whose curl has not returned is still the finalized file of the
\* rotation it was spawned for (not re-created, not being written), however
\* long the upload takes.
C10_OneInFlightPerPath ==
    /\ \A p \in 0 .. 1 : Cardinality(InFlightOn(p)) <= 1
    /\ \A n \in DOMAIN disp :
          disp[n].pc = "curl" =>
             /\ files[disp[n].i].owner = disp[n].k
             /\ files[disp[n].i].finalized

\* The controller's fallible steps: each either succeeds or ends the
\* process, leaving everything but the controller's position as it was
\* (a failed finalize has still taken the writer and released the lock).
FatalOrSuccess ==
    /\ (ctl = "start" /\ ctl' # ctl) => ctl' \in {"create", "exit_err"}
    /\ (ctl = "create" /\ ctl' # ctl) =>
          \/ (ctl' = "build" /\ sinkW'[rot] = "Some" /\ files'[i'].owner = rot)
          \/ (ctl' = "exit_err" /\ UNCHANGED <<files, sinkVars, stream, disp>>)
    /\ (ctl = "build" /\ ctl' # ctl) =>
          \/ (ctl' = "play" /\ stream'[rot] = "built")
          \/ (ctl' = "exit_err" /\ UNCHANGED <<files, sinkVars, stream, disp>>)
    /\ (ctl = "play" /\ ctl' # ctl) =>
          \/ (ctl' = "sleep" /\ stream'[rot] = "playing")
          \/ (ctl' = "exit_err" /\ UNCHANGED <<files, sinkVars, stream, disp>>)
    /\ (ctl = "finalize" /\ ctl' # ctl) =>
          \/ (ctl' = "spawn" /\ files'[sinkSlot[rot]].finalized)
          \/ (ctl' = "exit_err" /\ UNCHANGED <<files, stream, disp>>)

\* C11: a fatal error stops the controller for good: a failed startup, file
\* creation, stream construction, stream start (or finalize) ends the
\* process; once ended nothing changes any more (no further rotation, no
\* recording, no dispatch), no stream is playing, and no dispatcher exists
\* for the rotation that failed.
C11_FatalErrorStops ==
    /\ [][FatalOrSuccess]_vars
    /\ [][(ctl = "exit_err") => UNCHANGED vars]_vars
    /\ []((ctl = "exit_err") =>
            /\ \A k \in Rots : stream[k] # "playing"
            /\ \A n \in DOMAIN disp : disp[n].k < rot
            /\ ~ENABLED Next)
    /\ []((ctl = "sleep") =>
            (stream[rot] = "playing" /\ sinkW[rot] = "Some"
             /\ files[sinkSlot[rot]].exists))

\* The stream of rotation 1 could not be started: the process has ended
\* with the stream built but never played, one dispatcher (of rotation 0)
\* and none for rotation 1.
C11_Witness ==
    /\ ctl = "exit_err"
    /\ rot = 1
    /\ stream[1] = "built"
    /\ sinkW[1] = "Some"
    /\ Len(disp) = 1

\* The positions of the log at which dispatcher n's body is directly
\* followed by its newline: its complete entries.
EntriesOf(n) ==
    { p \in 1 .. (Len(log) - 1) :
        /\ log[p].d = n /\ log[p].part = "body"
        /\ log[p + 1].d = n /\ log[p + 1].part = "nl" }

\* The positions of the log written by dispatcher n.
WritesOf(n) == { p \in 1 .. Len(log) : log[p].d = n }

\* Where dispatcher n is, "none" before it is spawned.
PcOf(n) == IF n \in DOMAIN disp THEN disp[n].pc ELSE "none"

BodyIsResponse ==
    \A n \in DOMAIN disp :
        (disp[n].pc = "lock" /\ disp'[n].pc = "nl") =>
            /\ disp[n].body \in Bodies
            /\ log' = Append(log, [d |-> n, part |-> "body",
                                    text |-> disp[n].body])

C13_LogOrderIsLockOrder ==
    /\ \A n \in DOMAIN disp :
          (Running /\ disp[n].pc = "lock" /\ logLock = 0)
              => ENABLED DispWriteBody(n)
    /\ \A n \in DOMAIN disp :
          logLock = n =>
              /\ disp[n].pc = "nl"
              /\ log[Len(log)] = [d |-> n, part |-> "body",
                                   text |-> log[Len(log)].text]

\* The whole entry of the segment of a rotation k+1 is in the log before
\* the entry of the segment of rotation k, which is in the log as well.
C13_Witness ==
    \E p \in EntriesOf(2), q \in EntriesOf(1) :
        /\ p < q
        /\ disp[2].k = disp[1].k + 1
        /\ disp[1].pc = "done"
        /\ ctl = "sleep" /\ rot = 2

\* The float formats and the bit depth of each format, written out.
FloatFormats == {"F32", "F64"}

BitsOf(format) ==
    IF format \in {"I8", "U8"} THEN 8
    ELSE IF format \in {"I16", "U16"} THEN 16
    ELSE IF format \in {"I32", "U32", "F32"} THEN 32
    ELSE 64

\* The header that the segment files of a stream of configuration c have.
HeaderOf(c) ==
    [ channels        |-> c.channels,
      sample_rate     |-> c.sample_rate,
      bits_per_sample |-> BitsOf(c.sample_format),
      sample_format   |-> IF c.sample_format \in FloatFormats
                            THEN "Float" ELSE "Int" ]

\* C14: for every stream configuration, wav_spec_from_config gives the
\* config's channel count and sample rate, a bit depth of 8 times the
\* format's size in bytes, and Float exactly for the float formats; and
\* every segment file, from its creation on, has the header of the
\* configuration the program records with.
C14_HeaderMatchesConfig ==
    /\ config \in Configs
    /\ \A c \in Configs :
          /\ wav_spec_from_config(c) = HeaderOf(c)
          /\ wav_spec_from_config(c).bits_per_sample
                = 8 * SampleSize(c.sample_format)
          /\ (wav_spec_from_config(c).sample_format = "Float")
                <=> (c.sample_format \in FloatFormats)
    /\ \A p \in 0 .. 1 :
          files[p].exists => files[p].spec = HeaderOf(config)

\* A mono 44100 Hz 32-bit float stream: the segment of rotation 0 is
\* finalized and that of rotation 1 is being recorded, both with a mono
\* 44100 Hz 32-bit Float header.
C14_Witness ==
    /\ config = [channels |-> 1, sample_rate |-> 44100, sample_format |-> "F32"]
    /\ files[0].finalized /\ files[0].owner = 0
    /\ files[1].exists /\ files[1].owner = 1 /\ ctl = "sleep"
    /\ files[0].spec = [channels |-> 1, sample_rate |-> 44100,
                         bits_per_sample |-> 32, sample_format |-> "Float"]
    /\ files[1].spec = files[0].spec

\* The controller's phase: Idle while it sets the next segment up, Recording
\* while it sleeps with the stream playing, Finalizing from the stop of the
\* stream to the end of finalize, Dispatching at the spawn; Stopped after a
\* fatal error.
Phase ==
    CASE ctl \in {"start", "create", "build", "play"} -> "Idle"
      [] ctl = "sleep" -> "Recording"
      [] ctl \in {"lock", "finalize"} -> "Finalizing"
      [] ctl = "spawn" -> "Dispatching"
      [] ctl = "exit_err" -> "Stopped"

PhaseOrder ==
    { <<"Idle", "Recording">>, <<"Recording", "Finalizing">>,
      <<"Finalizing", "Dispatching">>, <<"Dispatching", "Idle">>,
      <<"Idle", "Stopped">>, <<"Finalizing", "Stopped">> }

\* C15: the controller's phase changes only along Idle, Recording,
\* Finalizing, Dispatching, Idle (or to Stopped by a fatal error); while
\* Finalizing the stream is already dropped, while Dispatching the sink is
\* finalized too and the dispatcher not yet spawned, and a dispatcher is
\* spawned only by the step from Dispatching to Idle; under fair scheduling
\* and absent a fatal error, in each of the MaxRot rotations the controller
\* gets from Idle to Recording and from Recording to the Idle of the next
\* rotation.
C15_PhaseCycle ==
    /\ [][Phase' # Phase => <<Phase, Phase'>> \in PhaseOrder]_vars
    /\ [][disp' # disp =>
            \/ Len(disp') = Len(disp)
            \/ (Phase = "Dispatching" /\ Phase' = "Idle" /\ rot' = rot + 1)]_vars
    /\ [](Phase \in {"Finalizing", "Dispatching"} => stream[rot] = "dropped")
    /\ [](Phase = "Recording" => stream[rot] = "playing")
    /\ [](Phase = "Dispatching" =>
            /\ sinkW[rot] = "None"
            /\ files[sinkSlot[rot]].finalized
            /\ DispOf(rot) = {})
    /\ \A k \in Rots :
          /\ (rot = k /\ Phase = "Idle")
                ~> (~Running \/ (rot = k /\ Phase = "Recording"))
          /\ (rot = k /\ Phase = "Recording")
                ~> (~Running \/ (rot = k + 1 /\ Phase = "Idle"))

\* The controller is Recording for the third time, two whole cycles behind
\* it, each with its dispatcher spawned.
C15_Witness ==
    /\ Phase = "Recording"
    /\ rot = 2
    /\ Len(disp) = 2
    /\ stream = [k \in Rots |-> IF k < 2 THEN "dropped" ELSE
                                 IF k = 2 THEN "playing" ELSE "none"]

\* C16: finalize is never starved: under fair scheduling the controller's
\* blocking acquire of the sink lock of rotation k is followed by the sink
\* of rotation k being absent; a callback that holds the lock is in its
\* sample loop, can always take its next step (it waits for nothing) and
\* has at most BufLen steps left; while the controller waits, either it or
\* the callback can move (no deadlock); and the finalize step takes the
\* sink from open to absent.
C16_FinalizeNotStarved ==
    /\ \A k \in Rots :
          (ctl = "lock" /\ rot = k) ~> (ctl # "lock" /\ sinkW[k] = "None")
    /\ [](\A k \in Rots :
            sinkLock[k] = "cb" =>
                /\ cb.pc = "loop" /\ cb.rot = k
                /\ cb.j \in 1 .. BufLen
                /\ ENABLED CbWrite)
    /\ [](ctl = "lock" => (ENABLED CtlLock \/ ENABLED CbWrite))
    /\ [][(ctl = "finalize" /\ ctl' # ctl) =>
            (sinkW[rot] = "Some" /\ sinkW'[rot] = "None"
             /\ sinkLock[rot] = "ctl" /\ sinkLock'[rot] = "free")]_vars

\* The controller waits for the sink lock of rotation 1 while a callback
\* invocation that was entered before the stream was dropped holds it in
\* the middle of its buffer.
C16_Witness ==
    /\ ctl = "lock" /\ rot = 1
    /\ stream[1] = "dropped"
    /\ sinkLock[1] = "cb"
    /\ cb.pc = "loop" /\ cb.j = BufLen
    /\ ~ENABLED CtlLock

\* Rotation k+2 has not created its file yet.
BeforeStartOf(k) == rot < k \/ (rot = k /\ ctl \in {"start", "create"})

\* C17: a finalized file is left untouched for one full rotation: the file
\* of a slot, once finalized, changes only by the file creation of the
\* rotation two after its owner; the slot recorded to during rotation k+1
\* is not the slot handed to the dispatcher of rotation k; and until
\* rotation k+2 creates its file, the file at the path of dispatcher k is
\* the finalized file of rotation k, so an upload that returns by then has
\* read the finalized content.
C17_FinalizedUntouched ==
    /\ [][\A p \in 0 .. 1 :
            (files[p].finalized /\ files'[p] # files[p]) =>
                (FileCreate(p) /\ rot = files[p].owner + 2)]_vars
    /\ [](\A n \in DOMAIN disp :
            /\ disp[n].path = Paths[disp[n].i + 1]
            /\ (disp[n].k + 1) \in Rots =>
                  sinkSlot[disp[n].k + 1] \in {-1, 1 - disp[n].i}
            /\ BeforeStartOf(disp[n].k + 2) =>
                  /\ files[disp[n].i].finalized
                  /\ files[disp[n].i].owner = disp[n].k)
    /\ [][\A n \in DOMAIN disp :
            (disp[n].pc = "curl" /\ disp'[n].pc # "curl"
             /\ BeforeStartOf(disp[n].k + 2)) =>
                (files[disp[n].i].finalized
                 /\ files[disp[n].i].owner = disp[n].k
                 /\ files' = files)]_vars

\* The upload of the segment of rotation 0 has returned and is logged while
\* rotation 1 records to the other slot; the file of rotation 0 is
\* finalized and holds the samples of rotation 0.
C17_Witness ==
    /\ rot = 1 /\ ctl = "sleep"
    /\ disp[1].pc = "done" /\ disp[1].k = 0 /\ disp[1].i = 0
    /\ files[0].finalized /\ files[0].owner = 0 /\ Len(files[0].data) = BufLen
    /\ sinkSlot[1] = 1 /\ sinkW[1] = "Some" /\ stream[1] = "playing"
    /\ files[1].exists /\ ~files[1].finalized

\* C18: while a rotation is Recording the controller does not hold the sink
\* lock (of any rotation), so a callback at its try-lock finds the lock
\* free; the only states in which a try-lock would fail are those in which
\* the controller holds the lock of the callback's rotation for its
\* finalize, the stream already dropped.
C18_NoContentionWhileRecording ==
    /\ Phase = "Recording" =>
          /\ \A k \in Rots : sinkLock[k] # "ctl"
          /\ cb.pc = "try" => sinkLock[cb.rot] = "free"
    /\ (cb.pc = "try" /\ sinkLock[cb.rot] # "free") =>
          /\ sinkLock[cb.rot] = "ctl"
          /\ ctl = "finalize" /\ rot = cb.rot
          /\ stream[rot] = "dropped"
    /\ \A k \in Rots :
          sinkLock[k] = "ctl" => (ctl = "finalize" /\ rot = k)

\* During the Recording of rotation 1 a callback's try-lock has succeeded:
\* it holds the lock and is writing its buffer.
C18_Witness ==
    /\ Phase = "Recording" /\ rot = 1
    /\ cb.pc = "loop" /\ cb.rot = 1 /\ cb.j = 1
    /\ sinkLock[1] = "cb"
    /\ cbOut # "contended"

\* The invocation in its sample loop is about to write sample j of
\* invocation n of rotation r.
Writing(r, n, j) == cb = [pc |-> "loop", rot |-> r, n |-> n, j |-> j]

\* The samples in the file of slot p come in whole buffers: each sample is
\* the first of its buffer or follows the previous sample of the same
\* invocation, and is the last of its buffer or is followed by the next
\* sample of the same invocation, which at the end of the file is the one
\* the invocation is about to write.
WholeBuffers(p) ==
    LET data == files[p].data IN
    \A q \in 1 .. Len(data) :
        LET t == data[q] IN
        /\ t[3] = 1 \/ (q > 1 /\ data[q - 1] = <<t[1], t[2], t[3] - 1>>)
        /\ \/ t[3] = BufLen
           \/ (q < Len(data) /\ data[q + 1] = <<t[1], t[2], t[3] + 1>>)
           \/ (q = Len(data) /\ Writing(t[1], t[2], t[3] + 1))

\* The samples of one invocation are next to each other in the file of
\* slot p, in input order.
NotInterleaved(p) ==
    LET data == files[p].data IN
    \A q1, q2 \in 1 .. Len(data) :
        (q1 < q2 /\ data[q1][1] = data[q2][1] /\ data[q1][2] = data[q2][2]) =>
            /\ data[q1][3] < data[q2][3]
            /\ \A q \in q1 .. q2 :
                  data[q][1] = data[q1][1] /\ data[q][2] = data[q1][2]

\* C19: lock contention drops whole buffers: an invocation takes the lock
\* only by its one try-lock and keeps it for its whole sample loop; an
\* invocation whose try-lock fails (or that finds the sink absent) leaves
\* every file unchanged; the samples of an invocation are contiguous and in
\* input order in the file, never interleaved with another invocation's;
\* and when no sample write has failed every invocation in the file is
\* there with its whole buffer (up to the sample being written).
C19_WholeBuffers ==
    /\ [](cb.pc = "loop" => sinkLock[cb.rot] = "cb")
    /\ [][\A k \in Rots :
            (sinkLock'[k] = "cb" /\ sinkLock[k] # "cb") =>
                (cb.pc = "try" /\ cb.rot = k /\ cb' = [cb EXCEPT !.pc = "loop", !.j = 1])]_vars
    /\ [][(cb.pc = "try" /\ cb'.pc = "idle") => files' = files]_vars
    /\ [](\A p \in 0 .. 1 :
            /\ NotInterleaved(p)
            /\ \A q \in 1 .. Len(files[p].data) :
                  files[p].data[q][1] = files[p].owner
            /\ fails = 0 => WholeBuffers(p))

\* Rotation 0 got three invocations: the first two appended their whole
\* buffers one after the other, the third found the lock held by the
\* controller's finalize and appended nothing.
C19_Witness ==
    /\ fails = 0
    /\ cbN = 3 /\ cbOut = "contended" /\ cb = CbIdle
    /\ files[0].owner = 0
    /\ Len(files[0].data) = 2 * BufLen
    /\ files[0].data[1] = <<0, 1, 1>>
    /\ files[0].data[BufLen + 1] = <<0, 2, 1>>
    /\ files[0].data[2 * BufLen] = <<0, 2, BufLen>>

\* The step in which the log lock gets poisoned: a dispatcher's log write
\* fails inside the critical section and the panic releases the lock.
PoisoningStep ==
    \E n \in DOMAIN disp :
        /\ disp[n].pc \in {"lock", "nl"}
        /\ disp'[n].pc = "write_panic"
        /\ logLock \in {0, n} /\ logLock' = 0
        /\ log' = log

\* C20: the log lock is poisoned exactly by a dispatcher whose log write
\* fails while it holds the lock; it then stays poisoned and free, the log
\* never changes again, and every dispatcher that reaches the acquire can
\* take its step, which ends it at the acquire with nothing appended; the
\* controller is not affected: it can take its next step as before (unless
\* it waits for a callback to release the sink lock) and goes on spawning.
C20_PoisonedLogStaysSilent ==
    /\ [][(~logPoisoned /\ logPoisoned') => PoisoningStep]_vars
    /\ [][logPoisoned => (logPoisoned' /\ log' = log)]_vars
    /\ [](logPoisoned => logLock = 0)
    /\ [](\A n \in DOMAIN disp :
            (logPoisoned /\ Running /\ disp[n].pc = "lock")
                => ENABLED DispWriteBody(n))
    /\ [][\A n \in DOMAIN disp :
            (logPoisoned /\ disp[n].pc = "lock" /\ disp'[n] # disp[n])
                => disp'[n].pc = "poison_panic"]_vars
    /\ [](\A n \in DOMAIN disp :
            disp[n].pc = "poison_panic" => (logPoisoned /\ WritesOf(n) = {}))
    /\ []((logPoisoned /\ Running /\ rot < MaxRot) =>
            (ENABLED Controller \/ (ctl = "lock" /\ sinkLock[rot] = "cb")))

\* The log write of the first dispatcher failed; the two dispatchers
\* spawned after it ended at the acquire, the log is empty, and the
\* controller has spawned all three and finished its rotations.
C20_Witness ==
    /\ logPoisoned /\ log = << >>
    /\ Len(disp) = MaxRot
    /\ disp[1].pc = "write_panic"
    /\ \A n \in 2 .. MaxRot : disp[n].pc = "poison_panic"
    /\ rot = MaxRot /\ Running
    /\ \A p \in 0 .. 1 : files[p].finalized
====
